---- MODULE Spec2Model ----
(***************************************************************************)
(* Client-side auth session manager of qolca-basic-react-vite:             *)
(*   - lib/rateLimiter.ts      RateLimiter (checkLimit/recordAttempt/reset) *)
(*   - stores/useAuthStore.ts  token storage, token checks, the auth store  *)
(*   - lib/axios.ts            request / response interceptors              *)
(*   - stores/useModalStore.ts the modal store and its closing timeout      *)
(* Time is in milliseconds, token expiry in seconds, as in the source.      *)
(* Every asynchronous call is a frame; a frame owns the HTTP request it is  *)
(* awaiting.  One action is one event-loop task: the synchronous code that  *)
(* runs between two suspension points on the network.                       *)
(***************************************************************************)
EXTENDS Integers, Sequences, FiniteSets, TLC

VARIABLES
    isLogged,           \* AuthState.isLogged
    isLoading,          \* AuthState.isLoading
    confirmEmailToken,  \* AuthState.confirmEmailToken ("" is null)
    storage,            \* localStorage: access token, refresh token, user
    attempts,           \* authRateLimiter.attempts (Map identifier -> AttemptRecord)
    frames,             \* the async calls in flight
    returned,           \* the calls that returned during the last task
    now,                \* Date.now()
    left,               \* calls the UI will still make
    modal               \* useModalStore: isOpen, isClosing, content, pending timeouts

vars == <<isLogged, isLoading, confirmEmailToken, storage, attempts, frames, returned, now, left,
         modal>>

----------------------------------------------------------------------------
(* Bounds of the model *)

\* Number of frame slots: async calls in flight at the same time.
MaxFrames == 4
\* Number of clock ticks the model lets pass.
MaxTicks == 1
\* Resubmissions of one request the model follows before it stops looking.
MaxRetry == 2
\* Calls started from the UI that may be in flight together.
MaxConcurrent == 1
\* Forced logOut calls (started by getAccessToken or by the response
\* interceptor, awaited by nobody) that may be in flight together.
MaxForced == 1
\* Forced logOuts followed beyond MaxForced when the logout request of a forced
\* logOut, finding no refresh token, starts one more.
MaxChained == 1
\* Calls the UI makes in a run over all the store's methods.
MaxCalls == 2
\* Calls the UI makes in a run of logins and resends: one more than it takes to
\* lock an identifier out.
MaxLoginCalls == 6
\* Calls the UI makes in a run of an open session.
MaxSessionCalls == 3
\* Calls the UI makes in a run of the password methods alone.
MaxPasswordCalls == 2
\* Largest exp claim (seconds) of the tokens the two token checks are tried on.
MaxTokenExp == 603
\* Half seconds on the clock when the two token checks are tried.
MaxTokenClock == 4
\* Calls the UI makes in a run of one query over an open session.
MaxRefreshCalls == 1
\* Calls the UI makes in a run of failing logins.
MaxClassifyCalls == 3
\* Calls the UI makes in a run of logins and confirmations.
MaxConfirmCalls == 3
\* Calls of logIn the form lets through while another is pending, and the logIn
\* calls of the overlapping logins.
MaxOverlap == 2
MaxOverlapCalls == 6
\* Calls of the modal store, clock steps of its model, timeouts pending together.
MaxModalCalls == 5
MaxModalTicks == 6
MaxTimers == 2
\* Calls of the rate limiter's methods in a run of the limiter alone.
MaxLimiterCalls == 8
\* Steps of the finer clock of the limiter alone.
MaxLimiterTicks == 6

\* One clock tick: 15 minutes.
TickMs == 15 * 60 * 1000
\* One step of the finer clock: 5 minutes.
LimiterTickMs == 5 * 60 * 1000

----------------------------------------------------------------------------
(* constants/auth.ts, constants/routes *)

TOKEN_REFRESH_THRESHOLD_MS == 10 * 60 * 1000

LOGOUT_ERROR_CODES == {"user_not_found", "user_inactive", "token_not_valid"}

API_ROUTES == [
    login |-> "/auth/login/",
    logout |-> "/auth/logout/",
    refresh |-> "/auth/token/refresh/",
    signup |-> "/auth/registration/",
    resendEmail |-> "/resend-email-confirmation/",
    confirmEmail |-> "/auth/registration/account-confirm-email/",
    changePassword |-> "/auth/password/change/",
    resetPassword |-> "/auth/password/reset/",
    resetPasswordConfirm |-> "/auth/password/reset/confirm/",
    profile |-> "/api/auth/profile/" ]

NO_AUTH_REQUIRED_API_ROUTES == {
    API_ROUTES.login, API_ROUTES.refresh, API_ROUTES.signup, API_ROUTES.resendEmail,
    API_ROUTES.confirmEmail, API_ROUTES.resetPassword, API_ROUTES.resetPasswordConfirm }

----------------------------------------------------------------------------
(* lib/rateLimiter.ts *)

\* new RateLimiter({maxAttempts: 5, windowMs: 15 min, blockDurationMs: 15 min})
authRateLimiterConfig ==
    [maxAttempts |-> 5, windowMs |-> 15 * 60 * 1000, blockDurationMs |-> 15 * 60 * 1000]

\* new RateLimiter({maxAttempts: 100, windowMs: 1 min, blockDurationMs: 1 min})
apiRateLimiterConfig ==
    [maxAttempts |-> 100, windowMs |-> 60 * 1000, blockDurationMs |-> 60 * 1000]

\* Math.ceil(x / d) for x >= 0
Ceil(x, d) == (x + d - 1) \div d

\* An AttemptRecord; blockedUntil = 0 is the absent (falsy) blockedUntil.
AttemptRecord(count, firstAttemptTime, blockedUntil) ==
    [count |-> count, firstAttemptTime |-> firstAttemptTime, blockedUntil |-> blockedUntil]

\* Map.delete(identifier)
MapDelete(att, id) == [i \in DOMAIN att \ {id} |-> att[i]]

\* Map.set(identifier, record)
MapSet(att, id, rec) == [i \in DOMAIN att \cup {id} |-> IF i = id THEN rec ELSE att[i]]

\* The result of checkLimit together with the map it leaves behind.
\* retryAfter = 0 and attemptsRemaining = -1 stand for the absent fields.
LimitResult(isAllowed, retryAfter, attemptsRemaining, att) ==
    [isAllowed |-> isAllowed, retryAfter |-> retryAfter,
     attemptsRemaining |-> attemptsRemaining, attempts |-> att]

\* RateLimiter.checkLimit(identifier) at time t
checkLimit(cfg, att, id, t) ==
    IF id \notin DOMAIN att
    THEN LimitResult(TRUE, 0, cfg.maxAttempts - 1, att)
    ELSE LET record == att[id] IN
         IF record.blockedUntil # 0 /\ record.blockedUntil > t
         THEN LimitResult(FALSE, Ceil(record.blockedUntil - t, 1000), -1, att)
         ELSE IF t - record.firstAttemptTime > cfg.windowMs
         THEN LimitResult(TRUE, 0, cfg.maxAttempts - 1, MapDelete(att, id))
         ELSE IF record.count >= cfg.maxAttempts
         THEN LimitResult(FALSE, Ceil(cfg.blockDurationMs, 1000), -1,
                          MapSet(att, id, [record EXCEPT !.blockedUntil = t + cfg.blockDurationMs]))
         ELSE LimitResult(TRUE, 0, cfg.maxAttempts - record.count - 1, att)

\* RateLimiter.recordAttempt(identifier) at time t
recordAttempt(cfg, att, id, t) ==
    IF id \notin DOMAIN att \/ (t - att[id].firstAttemptTime) > cfg.windowMs
    THEN MapSet(att, id, AttemptRecord(1, t, 0))
    ELSE MapSet(att, id, [att[id] EXCEPT !.count = att[id].count + 1])

\* Fault: reset(identifier) that leaves the record in the map.
resetNothing(att, id) == att

\* RateLimiter.reset(identifier)
reset(att, id) == MapDelete(att, id)

\* RateLimiter.getExponentialBackoff(attemptCount), attemptCount >= 1
getExponentialBackoff(attemptCount) ==
    LET delay == 1000 * (2 ^ (attemptCount - 1))
    IN  IF delay < 30000 THEN delay ELSE 30000

----------------------------------------------------------------------------
(* Tokens, users and Token Storage (stores/useAuthStore.ts, helpers) *)

\* A JWT as the client sees it: the account it was issued to, a serial that
\* tells two issues apart, and its exp claim in seconds.  kind "junk" is a
\* stored string jwtDecode cannot decode; kind "none" is the absent token.
Token(acct, n, kind, exp) == [acct |-> acct, n |-> n, kind |-> kind, exp |-> exp]

NoToken == Token(0, 0, "none", 0)

JunkToken == Token(0, 0, "junk", 0)

\* The cached user record of an account; 0 is the absent record.
NoUser == 0

\* const storage = { getAccessToken, getRefreshToken, getUser, ... }
StorageOf(access, refresh, user) == [access |-> access, refresh |-> refresh, user |-> user]

\* Fault: setTokens that stores the access token and keeps the old refresh token.
setTokensAccessOnly(st, access, refresh) == [st EXCEPT !.access = access]

\* storage.setTokens(access, refresh)
setTokens(st, access, refresh) == [st EXCEPT !.access = access, !.refresh = refresh]

\* storage.setUser(user)
setUser(st, user) == [st EXCEPT !.user = user]

\* Fault: clear() that removes the two tokens and keeps the cached user.
clearTokensOnly(st) == [st EXCEPT !.access = NoToken, !.refresh = NoToken]

\* storage.clear()
clear(st) == StorageOf(NoToken, NoToken, NoUser)

\* Fault: isTokenValid that takes an absent token for a valid one.
isTokenValidOfAbsent(token, t) ==
    IF token.kind = "none" THEN TRUE
    ELSE IF token.kind = "junk" THEN FALSE
    ELSE token.exp * 1000 > t

\* isTokenValid(token) at time t
isTokenValid(token, t) ==
    IF token.kind = "none" THEN FALSE
    ELSE IF token.kind = "junk" THEN FALSE
    ELSE token.exp * 1000 > t

\* Fault: isTokenExpiringSoon with the threshold itself left out.
isTokenExpiringSoonStrict(token, t) ==
    IF token.kind = "junk" THEN TRUE
    ELSE LET timeToExpire == token.exp * 1000 - t
         IN  timeToExpire < TOKEN_REFRESH_THRESHOLD_MS

\* isTokenExpiringSoon(token) at time t
isTokenExpiringSoon(token, t) ==
    IF token.kind = "junk" THEN TRUE
    ELSE LET timeToExpire == token.exp * 1000 - t
         IN  timeToExpire <= TOKEN_REFRESH_THRESHOLD_MS

----------------------------------------------------------------------------
(* The values the environment supplies *)

Emails == {"a@x"}
ConfirmTokens == {"tok1"}
Codes == {"key1"}
Accounts == {1, 2}

\* The account an email, a confirmation code belongs to (the backend's knowledge).
AcctOfEmail(email) == 1
AcctOfCode(code) == 2

\* The synthetic rate-limit identifiers `resend:${token}` and `verify:${code}`
ResendKey(token) == "resend:" \o token
VerifyKey(code) == "verify:" \o code

\* Lifetimes the backend gives an access token and a refresh token (ms): a new
\* access token is not expiring soon when issued, and is one tick later.
AccessLives == {TOKEN_REFRESH_THRESHOLD_MS + TickMs \div 3}
RefreshLife == 2 * TickMs

\* The serial of a newly issued token: never that of the token it replaces.
FreshSerial(old) == (old.n % 2) + 1

\* exp claim (seconds) of a token issued at t with the given lifetime
ExpAt(t, life) == (t + life) \div 1000

----------------------------------------------------------------------------
(* HTTP responses: what axios hands to the response interceptor *)

\* ok      : a 2xx response (resolved) or an error (rejected)
\* status  : the HTTP status; 0 when the error has no response (transport failure)
\* code    : response.data.code.message of an error
\* shape   : the shape of the body (response.data):
\*             2xx   "full" (the contract's success shape), "nouser" (tokens, no user),
\*                   "empty" (no field of the contract), "null" (data is null),
\*                   "status_true" / "in_progress" / "status_false" (resend route)
\*             error "none" (no data), "token" ({token: [str]}), "type" ({type: [str]}),
\*                   "message" ({message: [str]}),
\*                   "token_type" ({token: [str], type: ['wrong_data']}),
\*                   "type_message" ({type: [str], message: ['two_fa_failed']}),
\*                   "email", "non_field_errors", "uid", "code", "other"
\* str     : token[0], type[0] or message[0] of an error body
\* access, refresh, user : the credentials of a 2xx body
Resp(ok, status, code, shape, str, access, refresh, user) ==
    [ok |-> ok, status |-> status, code |-> code, shape |-> shape, str |-> str,
     access |-> access, refresh |-> refresh, user |-> user]

NoResp == Resp(FALSE, 0, "", "none", "", NoToken, NoToken, NoUser)

OkResp(shape) == Resp(TRUE, 200, "", shape, "", NoToken, NoToken, NoUser)

ErrResp(status, code, shape, str) ==
    Resp(FALSE, status, code, shape, str, NoToken, NoToken, NoUser)

\* A 2xx body carrying a fresh credential pair of account acct issued at t.
CredResp(shape, acct, n, life, t) ==
    Resp(TRUE, 200, "", shape, "",
         Token(acct, n, "access", ExpAt(t, life)),
         Token(acct, n, "refresh", ExpAt(t, RefreshLife)),
         IF shape = "full" THEN acct ELSE NoUser)

\* Errors every route can answer: transport failure, 503, 401 with a
\* logout-triggering code, 401 with another code, another status.
CommonErrors ==
    { ErrResp(0, "", "none", ""),
      ErrResp(503, "", "other", ""),
      ErrResp(401, "token_not_valid", "code", ""),
      ErrResp(401, "", "code", ""),
      ErrResp(400, "", "other", "") }

LoginErrorTypes == {"two_fa_failed", "wrong_data", "reset_psw", "account_block", "invalid", "bogus"}

----------------------------------------------------------------------------
(* Frames: the async calls in flight *)

\* kind   : the async function ("api" is a call of the axios instance by another
\*          module, e.g. the profile query)
\* arg    : credentials.email / token / code
\* gc     : credentials.googlecode is set
\* parent : the frame awaiting this one (0: nobody awaits it)
\* via    : who started it: "ui", "forced" (a logOut() nobody awaits), "request" /
\*          "response" (getAccessToken awaited by an interceptor), "logIn" (the
\*          resend nested in logIn)
\* url, body, hdr : the request this frame awaits: route, refresh token in the
\*          body, bearer token of the Authorization header
\* phase  : "call"      the request has been made, its request interceptor has
\*                      not run yet
\*          "token"     the request interceptor awaits getAccessToken
\*          "inflight"  the request is at the server
\*          "retoken"   the response interceptor awaits getAccessToken
\*          "nested"    logIn awaits resendConfirmationEmail
\* err    : the error the response interceptor holds while it awaits getAccessToken
\* ok     : the awaited request resolved (set when it settles)
\* nreq   : requests this call has sent to the server
\* tries  : resubmissions of its request by the response interceptor
\* sub    : requests sent by the call nested in it
Frame(kind, arg, gc, parent, via, url, body, hdr, phase, err, nreq, tries, sub) ==
    [kind |-> kind, arg |-> arg, gc |-> gc, parent |-> parent, via |-> via,
     url |-> url, body |-> body, hdr |-> hdr, phase |-> phase, err |-> err,
     nreq |-> nreq, tries |-> tries, sub |-> sub, ok |-> TRUE]

\* A call that returned: its result (res), for getAccessToken the token it
\* returned (tok), the requests it sent, and whether the request it awaited
\* resolved (ok).
Event(kind, arg, gc, via, res, tok, nreq, tries, sub, ok) ==
    [kind |-> kind, arg |-> arg, gc |-> gc, via |-> via, res |-> res, tok |-> tok,
     nreq |-> nreq, tries |-> tries, sub |-> sub, ok |-> ok]

----------------------------------------------------------------------------
(* The program state a task transforms *)

\* frames is the sequence of the calls in flight, oldest first: a call is
\* always younger than the call awaiting it.
\* ovf: the task needed more frames than the model follows.
State(logged, loading, cet, st, att, fr, ev, ovf) ==
    [isLogged |-> logged, isLoading |-> loading, confirmEmailToken |-> cet,
     storage |-> st, attempts |-> att, frames |-> fr, returned |-> ev, ovf |-> ovf]

\* The state a task starts from: nothing has returned yet in this task.
Cur == State(isLogged, isLoading, confirmEmailToken, storage, attempts, frames, <<>>, FALSE)

\* The task stays within the model's bounds, and leaves s.
Apply(s) ==
    /\ ~s.ovf
    /\ isLogged' = s.isLogged
    /\ isLoading' = s.isLoading
    /\ confirmEmailToken' = s.confirmEmailToken
    /\ storage' = s.storage
    /\ attempts' = s.attempts
    /\ frames' = s.frames
    /\ returned' = s.returned
    /\ modal' = modal
    /\ now' = now

\* The frames from the i-th on without frame f; a call awaited by a later frame
\* keeps its caller, whose position moves down by one.
RECURSIVE Without(_, _, _)
Without(fr, f, i) ==
    IF i > Len(fr) THEN <<>>
    ELSE IF i = f THEN Without(fr, f, i + 1)
    ELSE <<[fr[i] EXCEPT !.parent = IF @ > f THEN @ - 1 ELSE @]>> \o Without(fr, f, i + 1)

\* The call in frame f returns res (and tok): the frame is gone.
Return(s, f, res, tok) ==
    LET fr == s.frames[f]
        rest == Without(s.frames, f, 1)
    IN  [s EXCEPT !.frames = rest,
                  !.returned = Append(@, Event(fr.kind, fr.arg, fr.gc, fr.via, res, tok,
                                               fr.nreq, fr.tries, fr.sub, fr.ok))]

\* A call that returns before its first await: it never had a frame.
ReturnNow(s, kind, arg, gc, via, res, tok) ==
    [s EXCEPT !.returned = Append(@, Event(kind, arg, gc, via, res, tok, 0, 0, 0, TRUE))]

----------------------------------------------------------------------------
(* lib/axios.ts and stores/useAuthStore.ts: the code between two awaits *)

\* The cached user `JSON.stringify(undefined)` leaves in storage.
JunkUser == -1

\* What localStorage holds after setTokens / setUser of a 2xx body of this shape:
\* a missing field is stored as the string "undefined".
BodyAccess(r) == IF r.shape \in {"full", "nouser"} THEN r.access ELSE JunkToken
BodyRefresh(r) == IF r.shape \in {"full", "nouser"} THEN r.refresh ELSE JunkToken
BodyUser(r) == IF r.shape = "full" THEN r.user ELSE JunkUser
\* data.access && data.refresh
BodyHasTokens(r) == r.shape \in {"full", "nouser"}

\* The request of frame f leaves for the server.
Send(s, f) ==
    LET fr == s.frames[f]
        s1 == [s EXCEPT !.frames[f].phase = "inflight", !.frames[f].nreq = @ + 1]
    IN  IF fr.via = "logIn" THEN [s1 EXCEPT !.frames[fr.parent].sub = @ + 1] ELSE s1

\* api.interceptors.request.use (axios.ts 23-37) for the request of frame f
RECURSIVE RequestInterceptor(_, _)

\* The awaited request of frame f settles with response r.
RECURSIVE Settle(_, _, _)

\* An async function calls api.post(url, body): a new frame awaits the request.
\* The caller of an awaited call is suspended, so the request interceptor is what
\* runs next.  The caller of a forced logOut() goes on first: the interceptor of
\* the logout request runs when the caller has finished.
Spawn(s, kind, arg, gc, parent, via, url, body) ==
    LET s1 == [s EXCEPT !.frames = Append(@, Frame(kind, arg, gc, parent, via, url, body,
                                                   NoToken, "call", NoResp, 0, 0, 0))]
    IN  IF Len(s.frames) >= MaxFrames THEN [s EXCEPT !.ovf = TRUE]
        ELSE IF via = "forced" THEN s1
        ELSE RequestInterceptor(s1, Len(s.frames) + 1)

\* logOut() up to its first await (lines 182-187)
logOutCall(s, via) ==
    IF via = "forced" /\ Cardinality({i \in DOMAIN s.frames : s.frames[i].via = "forced"}) >= MaxForced
    THEN [s EXCEPT !.ovf = TRUE]
    ELSE Spawn([s EXCEPT !.isLoading = TRUE], "logOut", "", FALSE, 0, via,
               API_ROUTES.logout, NoToken)

\* get().logOut(), not awaited, called by getAccessToken for want of a refresh
\* token, on behalf of the request of frame f (lines 208-211).  When that
\* request is itself the logout request of a forced logOut, the new logOut is
\* one more link of a chain, followed for MaxChained links.
forcedLogOut(s, f) ==
    IF s.frames[f].kind = "logOut" /\ s.frames[f].via = "forced"
    THEN IF Cardinality({i \in DOMAIN s.frames : s.frames[i].via = "forced"})
               >= MaxForced + MaxChained
         THEN [s EXCEPT !.ovf = TRUE]
         ELSE Spawn([s EXCEPT !.isLoading = TRUE], "logOut", "", FALSE, 0, "forced",
                    API_ROUTES.logout, NoToken)
    ELSE logOutCall(s, "forced")

\* An interceptor of frame f's request resumes after `await getAccessToken()`.
\*   request interceptor (axios.ts 29-34): set the bearer header if a token came, send
\*   response interceptor (axios.ts 77-88): resubmit with the token, else reject
AfterToken(s, f, via, tok) ==
    IF via = "request"
    THEN Send(IF tok # NoToken THEN [s EXCEPT !.frames[f].hdr = tok] ELSE s, f)
    ELSE IF tok # NoToken
         THEN IF s.frames[f].tries >= MaxRetry THEN [s EXCEPT !.ovf = TRUE]
              ELSE RequestInterceptor(
                      [s EXCEPT !.frames[f].hdr = tok, !.frames[f].phase = "call",
                                !.frames[f].tries = @ + 1, !.frames[f].err = NoResp], f)
         ELSE Settle([s EXCEPT !.frames[f].err = NoResp], f, s.frames[f].err)

\* Fault: a request interceptor that does not await getAccessToken: the request
\* leaves while the refresh request is still pending.
getAccessTokenNotAwaited(s, f, via) ==
    LET accessToken == s.storage.access
        refreshToken == s.storage.refresh
    IN  IF accessToken = NoToken
        THEN AfterToken(ReturnNow(s, "getAccessToken", "", FALSE, via, "undefined", NoToken),
                        f, via, NoToken)
        ELSE IF ~isTokenExpiringSoon(accessToken, now)
        THEN AfterToken(ReturnNow(s, "getAccessToken", "", FALSE, via, "token", accessToken),
                        f, via, accessToken)
        ELSE IF refreshToken = NoToken
        THEN AfterToken(ReturnNow(forcedLogOut(s, f), "getAccessToken", "", FALSE, via,
                                  "undefined", NoToken),
                        f, via, NoToken)
        ELSE LET s1 == Spawn([s EXCEPT !.frames[f].phase =
                                           IF via = "request" THEN "token" ELSE "retoken"],
                             "getAccessToken", "", FALSE, f, via, API_ROUTES.refresh,
                             refreshToken)
             IN  IF via = "request" /\ ~s1.ovf THEN Send(s1, f) ELSE s1

\* getAccessToken() called by an interceptor of frame f's request (lines 196-216)
getAccessToken(s, f, via) ==
    LET accessToken == s.storage.access
        refreshToken == s.storage.refresh
    IN  IF accessToken = NoToken
        THEN AfterToken(ReturnNow(s, "getAccessToken", "", FALSE, via, "undefined", NoToken),
                        f, via, NoToken)
        ELSE IF ~isTokenExpiringSoon(accessToken, now)
        THEN AfterToken(ReturnNow(s, "getAccessToken", "", FALSE, via, "token", accessToken),
                        f, via, accessToken)
        ELSE IF refreshToken = NoToken
        THEN AfterToken(ReturnNow(forcedLogOut(s, f), "getAccessToken", "", FALSE, via,
                                  "undefined", NoToken),
                        f, via, NoToken)
        ELSE Spawn([s EXCEPT !.frames[f].phase = IF via = "request" THEN "token" ELSE "retoken"],
                   "getAccessToken", "", FALSE, f, via, API_ROUTES.refresh, refreshToken)

\* getAccessToken after its refresh request settled (lines 213-224)
getAccessTokenSettled(s, f, r) ==
    LET fr == s.frames[f] IN
    IF r.ok /\ r.shape # "null"
    THEN LET tok == IF BodyHasTokens(r) THEN r.access ELSE NoToken
             s1 == [s EXCEPT !.storage = setTokens(@, BodyAccess(r), BodyRefresh(r))]
         IN  AfterToken(Return(s1, f, IF tok = NoToken THEN "undefined" ELSE "token", tok),
                        fr.parent, fr.via, tok)
    ELSE AfterToken(Return(logOutCall(s, "forced"), f, "undefined", NoToken),
                    fr.parent, fr.via, NoToken)

\* Fault: logIn that answers 'confirm_email' whatever the nested resend returned.
logInAfterResendIgnoresError(s, f, sent) ==
    Return([s EXCEPT !.isLoading = FALSE], f, "confirm_email", NoToken)

\* logIn after the nested resendConfirmationEmail returned sent (lines 157-158)
logInAfterResend(s, f, sent) ==
    Return([s EXCEPT !.isLoading = FALSE], f,
           IF sent = "error" THEN "error" ELSE "confirm_email", NoToken)

\* resendConfirmationEmail(token) up to its first await (lines 258-268)
resendConfirmationEmail(s, token, parent, via) ==
    LET rateLimitCheck == checkLimit(authRateLimiterConfig, s.attempts, ResendKey(token), now)
        s1 == [s EXCEPT !.attempts = rateLimitCheck.attempts]
    IN  IF ~rateLimitCheck.isAllowed
        THEN LET s2 == ReturnNow(s1, "resendConfirmationEmail", token, FALSE, via, "error", NoToken)
             IN  IF via = "logIn" THEN logInAfterResend(s2, parent, "error") ELSE s2
        ELSE Spawn(IF via = "logIn" THEN [s1 EXCEPT !.frames[parent].phase = "nested"] ELSE s1,
                   "resendConfirmationEmail", token, FALSE, parent, via,
                   API_ROUTES.resendEmail, NoToken)

\* The result of resendConfirmationEmail for response r (lines 269-289)
ResendResult(r) ==
    IF r.ok /\ r.shape = "status_true" THEN "sent"
    ELSE IF r.ok /\ r.shape = "in_progress" THEN "in_progress"
    ELSE "error"

\* Fault: a resend that counts the answer 'Email confirmation in progress' as an attempt.
resendSettledCountsInProgress(s, f, r) ==
    LET fr == s.frames[f]
        res == ResendResult(r)
        s1 == [s EXCEPT !.attempts =
                  recordAttempt(authRateLimiterConfig, @, ResendKey(fr.arg), now)]
        s2 == Return(s1, f, res, NoToken)
    IN  IF fr.via = "logIn" THEN logInAfterResend(s2, fr.parent, res) ELSE s2

\* resendConfirmationEmail after its request settled (lines 268-290)
resendSettled(s, f, r) ==
    LET fr == s.frames[f]
        res == ResendResult(r)
        s1 == IF res = "in_progress" THEN s
              ELSE [s EXCEPT !.attempts =
                        recordAttempt(authRateLimiterConfig, @, ResendKey(fr.arg), now)]
        s2 == Return(s1, f, res, NoToken)
    IN  IF fr.via = "logIn" THEN logInAfterResend(s2, fr.parent, res) ELSE s2

\* type AuthResult
AuthResult ==
    {"success", "confirm_email", "go2fa", "otp_fail", "wrong_data", "reset_psw",
     "account_block", "invalid", "error"}

\* errorData.token?.[0] ("" when the payload has none)
ErrorToken(r) == IF r.shape \in {"token", "token_type"} THEN r.str ELSE ""

\* errorData.type?.[0] || errorData.message?.[0]
ErrorType(r) ==
    IF r.shape \in {"type", "message", "type_message"} THEN r.str
    ELSE IF r.shape = "token_type" THEN "wrong_data"
    ELSE ""

KnownErrors == {"wrong_data", "reset_psw", "account_block", "invalid"}

\* Fault: the 2FA branch of logIn without the call of onRequire2FA.
require2FANoCallback(s, f) == Return(s, f, "go2fa", NoToken)

\* logIn's 2FA branch (lines 163-167), isLoading already cleared in s: the
\* caller's onRequire2FA() runs, an event of its own, then logIn returns 'go2fa'.
require2FA(s, f) ==
    Return(ReturnNow(s, "onRequire2FA", s.frames[f].arg, FALSE, "logIn", "void", NoToken),
           f, "go2fa", NoToken)

\* Fault: logIn that looks for the unconfirmed-email token before the one-time code.
logInSettledTokenFirst(s, f, r) ==
    LET fr == s.frames[f]
        email == fr.arg
    IN  IF r.ok /\ r.shape # "null"
        THEN Return([s EXCEPT !.attempts = reset(@, email),
                              !.storage = setUser(setTokens(@, BodyAccess(r), BodyRefresh(r)),
                                                  BodyUser(r)),
                              !.isLogged = TRUE, !.isLoading = FALSE,
                              !.confirmEmailToken = ""],
                    f, "success", NoToken)
        ELSE LET \* a null body throws after the reset of line 130
                 att0 == IF r.ok THEN reset(s.attempts, email) ELSE s.attempts
                 s1 == [s EXCEPT !.attempts = recordAttempt(authRateLimiterConfig, att0, email, now)]
                 off == [s1 EXCEPT !.isLoading = FALSE]
                 errorType == ErrorType(r)
             IN  IF ~r.ok /\ ErrorToken(r) # ""
                 THEN resendConfirmationEmail([s1 EXCEPT !.confirmEmailToken = ErrorToken(r)],
                                              ErrorToken(r), f, "logIn")
                 ELSE IF fr.gc THEN Return(off, f, "otp_fail", NoToken)
                 ELSE IF r.ok \/ r.status = 0 \/ r.shape = "none"
                 THEN Return(off, f, "error", NoToken)
                 ELSE IF errorType = "two_fa_failed" THEN require2FA(off, f)
                 ELSE IF errorType \in KnownErrors THEN Return(off, f, errorType, NoToken)
                 ELSE Return(off, f, "error", NoToken)

\* logIn after its login request settled (lines 127-179)
logInSettled(s, f, r) ==
    LET fr == s.frames[f]
        email == fr.arg
    IN  IF r.ok /\ r.shape # "null"
        THEN Return([s EXCEPT !.attempts = reset(@, email),
                              !.storage = setUser(setTokens(@, BodyAccess(r), BodyRefresh(r)),
                                                  BodyUser(r)),
                              !.isLogged = TRUE, !.isLoading = FALSE,
                              !.confirmEmailToken = ""],
                    f, "success", NoToken)
        ELSE LET \* a null body throws after the reset of line 130
                 att0 == IF r.ok THEN reset(s.attempts, email) ELSE s.attempts
                 s1 == [s EXCEPT !.attempts = recordAttempt(authRateLimiterConfig, att0, email, now)]
                 off == [s1 EXCEPT !.isLoading = FALSE]
                 errorType == ErrorType(r)
             IN  IF fr.gc THEN Return(off, f, "otp_fail", NoToken)
                 ELSE IF r.ok \/ r.status = 0 \/ r.shape = "none"
                 THEN Return(off, f, "error", NoToken)
                 ELSE IF ErrorToken(r) # ""
                 THEN resendConfirmationEmail([s1 EXCEPT !.confirmEmailToken = ErrorToken(r)],
                                              ErrorToken(r), f, "logIn")
                 ELSE IF errorType = "two_fa_failed" THEN require2FA(off, f)
                 ELSE IF errorType \in KnownErrors THEN Return(off, f, errorType, NoToken)
                 ELSE Return(off, f, "error", NoToken)

\* Fault: logOut without the catch around its request: a rejected request
\* escapes as an exception before the storage is cleared.
logOutSettledNoCatch(s, f, r) ==
    IF r.ok
    THEN Return([s EXCEPT !.storage = clear(@), !.isLogged = FALSE, !.isLoading = FALSE,
                          !.confirmEmailToken = ""],
                f, "void", NoToken)
    ELSE Return(s, f, "throw", NoToken)

\* Fault: logOut that clears the storage and leaves isLogged as it was.
logOutSettledKeepsLogged(s, f, r) ==
    Return([s EXCEPT !.storage = clear(@), !.isLoading = FALSE, !.confirmEmailToken = ""],
           f, "void", NoToken)

\* Fault: logOut that leaves isLoading as it set it.
logOutSettledKeepsLoading(s, f, r) ==
    Return([s EXCEPT !.storage = clear(@), !.isLogged = FALSE, !.confirmEmailToken = ""],
           f, "void", NoToken)

\* logOut after its logout request settled (lines 186-193)
logOutSettled(s, f, r) ==
    Return([s EXCEPT !.storage = clear(@), !.isLogged = FALSE, !.isLoading = FALSE,
                     !.confirmEmailToken = ""],
           f, "void", NoToken)

\* Fault: confirmEmail that opens the session on every 2xx answer, tokens or not.
confirmEmailSettledAlwaysLogged(s, f, r) ==
    LET key == VerifyKey(s.frames[f].arg)
        failed(att) == Return([s EXCEPT !.attempts = recordAttempt(authRateLimiterConfig, att, key, now),
                                        !.confirmEmailToken = IF r.ok THEN "" ELSE @,
                                        !.isLoading = FALSE],
                              f, "false", NoToken)
    IN  IF ~r.ok THEN failed(s.attempts)
        ELSE IF r.shape = "null" THEN failed(reset(s.attempts, key))
        ELSE IF BodyHasTokens(r)
        THEN Return([s EXCEPT !.attempts = reset(@, key), !.confirmEmailToken = "",
                              !.storage = IF r.shape = "full"
                                          THEN setUser(setTokens(@, r.access, r.refresh), r.user)
                                          ELSE setTokens(@, r.access, r.refresh),
                              !.isLogged = TRUE, !.isLoading = FALSE],
                    f, "true", NoToken)
        ELSE Return([s EXCEPT !.attempts = reset(@, key), !.confirmEmailToken = "",
                              !.isLogged = TRUE, !.isLoading = FALSE],
                    f, "true", NoToken)

\* confirmEmail after its request settled (lines 305-340)
confirmEmailSettled(s, f, r) ==
    LET key == VerifyKey(s.frames[f].arg)
        failed(att) == Return([s EXCEPT !.attempts = recordAttempt(authRateLimiterConfig, att, key, now),
                                        !.confirmEmailToken = IF r.ok THEN "" ELSE @,
                                        !.isLoading = FALSE],
                              f, "false", NoToken)
    IN  IF ~r.ok THEN failed(s.attempts)
        ELSE IF r.shape = "null" THEN failed(reset(s.attempts, key))
        ELSE IF BodyHasTokens(r)
        THEN Return([s EXCEPT !.attempts = reset(@, key), !.confirmEmailToken = "",
                              !.storage = IF r.shape = "full"
                                          THEN setUser(setTokens(@, r.access, r.refresh), r.user)
                                          ELSE setTokens(@, r.access, r.refresh),
                              !.isLogged = TRUE, !.isLoading = FALSE],
                    f, "true", NoToken)
        ELSE Return([s EXCEPT !.attempts = reset(@, key), !.confirmEmailToken = "",
                              !.isLoading = FALSE],
                    f, "true", NoToken)

\* Fault: the four methods without their `finally` block.
booleanSettledNoFinally(s, f, r) ==
    Return(s, f, IF r.ok THEN "true" ELSE "false", NoToken)

\* register / requestPasswordReset / resetPassword / changePassword after the
\* request settled: true or false, and `finally { set({ isLoading: false }) }`
booleanSettled(s, f, r) ==
    Return([s EXCEPT !.isLoading = FALSE], f, IF r.ok THEN "true" ELSE "false", NoToken)

\* A call of the axios instance from outside the store settles.
apiSettled(s, f, r) ==
    Return(s, f, IF r.ok THEN "resolved" ELSE "rejected", NoToken)

Settle(s, f, r) ==
    LET kind == s.frames[f].kind
        s1 == [s EXCEPT !.frames[f].ok = r.ok]
    IN  CASE kind = "logIn" -> logInSettled(s1, f, r)
          [] kind = "logOut" -> logOutSettled(s1, f, r)
          [] kind = "getAccessToken" -> getAccessTokenSettled(s1, f, r)
          [] kind = "resendConfirmationEmail" -> resendSettled(s1, f, r)
          [] kind = "confirmEmail" -> confirmEmailSettled(s1, f, r)
          [] kind \in {"register", "requestPasswordReset", "resetPassword", "changePassword"} ->
                booleanSettled(s1, f, r)
          [] OTHER -> apiSettled(s1, f, r)

\* Fault: a request interceptor that authenticates every request.
RequestInterceptorAlwaysAuth(s, f) == getAccessToken(s, f, "request")

RequestInterceptor(s, f) ==
    IF s.frames[f].url \in NO_AUTH_REQUIRED_API_ROUTES
    THEN Send(s, f)
    ELSE getAccessToken(s, f, "request")

\* Fault: a response interceptor that takes 503 for 401.
ResponseInterceptorRetries503(s, f, r) ==
    LET url == s.frames[f].url IN
    IF r.status = 0 THEN Settle(s, f, r)
    ELSE IF r.status \in {401, 503}
    THEN IF r.code \in LOGOUT_ERROR_CODES
         THEN Settle(logOutCall(s, "forced"), f, r)
         ELSE IF url \notin NO_AUTH_REQUIRED_API_ROUTES /\ url # API_ROUTES.refresh
         THEN getAccessToken([s EXCEPT !.frames[f].err = r], f, "response")
         ELSE Settle(s, f, r)
    ELSE Settle(s, f, r)

\* api.interceptors.response.use, error handler (axios.ts 47-89)
ResponseInterceptor(s, f, r) ==
    LET url == s.frames[f].url IN
    IF r.status = 0 THEN Settle(s, f, r)
    ELSE IF r.status = 503 THEN Settle(s, f, r)
    ELSE IF r.status = 401
    THEN IF r.code \in LOGOUT_ERROR_CODES
         THEN Settle(logOutCall(s, "forced"), f, r)
         ELSE IF url \notin NO_AUTH_REQUIRED_API_ROUTES /\ url # API_ROUTES.refresh
         THEN getAccessToken([s EXCEPT !.frames[f].err = r], f, "response")
         ELSE Settle(s, f, r)
    ELSE Settle(s, f, r)

----------------------------------------------------------------------------
(* The store's methods up to their first await *)

\* Fault: logIn that counts a denied call as one more attempt.
logInRecordsDenied(s, email, gc) ==
    LET rateLimitCheck == checkLimit(authRateLimiterConfig, s.attempts, email, now)
        s1 == [s EXCEPT !.attempts = rateLimitCheck.attempts]
    IN  IF ~rateLimitCheck.isAllowed
        THEN ReturnNow([s1 EXCEPT !.attempts = recordAttempt(authRateLimiterConfig, @, email, now)],
                       "logIn", email, gc, "ui", "error", NoToken)
        ELSE Spawn([s1 EXCEPT !.isLoading = TRUE], "logIn", email, gc, 0, "ui",
                   API_ROUTES.login, NoToken)

\* logIn(credentials, onRequire2FA), lines 114-127
logIn(s, email, gc) ==
    LET rateLimitCheck == checkLimit(authRateLimiterConfig, s.attempts, email, now)
        s1 == [s EXCEPT !.attempts = rateLimitCheck.attempts]
    IN  IF ~rateLimitCheck.isAllowed
        THEN ReturnNow(s1, "logIn", email, gc, "ui", "error", NoToken)
        ELSE Spawn([s1 EXCEPT !.isLoading = TRUE], "logIn", email, gc, 0, "ui",
                   API_ROUTES.login, NoToken)

\* register(data), lines 233-243; match: data.password1 === data.password2
register(s, match) ==
    IF ~match
    THEN ReturnNow(s, "register", "", FALSE, "ui", "false", NoToken)
    ELSE Spawn([s EXCEPT !.isLoading = TRUE], "register", "", FALSE, 0, "ui",
               API_ROUTES.signup, NoToken)

\* confirmEmail(code), lines 293-308
confirmEmail(s, code) ==
    LET rateLimitCheck == checkLimit(authRateLimiterConfig, s.attempts, VerifyKey(code), now)
        s1 == [s EXCEPT !.attempts = rateLimitCheck.attempts]
    IN  IF ~rateLimitCheck.isAllowed
        THEN ReturnNow(s1, "confirmEmail", code, FALSE, "ui", "false", NoToken)
        ELSE Spawn([s1 EXCEPT !.isLoading = TRUE], "confirmEmail", code, FALSE, 0, "ui",
                   API_ROUTES.confirmEmail, NoToken)

\* Fault: a password method that drops the session when it starts.
passwordCallDropsSession(s, kind, url) ==
    Spawn([s EXCEPT !.isLoading = TRUE, !.isLogged = FALSE], kind, "", FALSE, 0, "ui", url, NoToken)

\* requestPasswordReset / resetPassword / changePassword up to the await
\* (lines 347-352, 365-370, 386-391)
passwordCall(s, kind, url) ==
    Spawn([s EXCEPT !.isLoading = TRUE], kind, "", FALSE, 0, "ui", url, NoToken)

\* A query of another module through the axios instance (api/useProfile.ts)
apiCall(s, url) == Spawn(s, "api", "", FALSE, 0, "ui", url, NoToken)

----------------------------------------------------------------------------
(* What the backend may answer to the request of a frame *)

LoginResponses(fr, t, st) ==
    { CredResp("full", AcctOfEmail(fr.arg), FreshSerial(st.access), life, t) : life \in AccessLives }
    \cup { OkResp("empty"), OkResp("null"), ErrResp(400, "", "none", "") }
    \cup { ErrResp(400, "", "token", tk) : tk \in ConfirmTokens }
    \cup { ErrResp(400, "", "type", e) : e \in LoginErrorTypes }
    \cup { ErrResp(400, "", "message", "two_fa_failed") }
    \cup { ErrResp(400, "", "token_type", tk) : tk \in ConfirmTokens }
    \cup { ErrResp(400, "", "type_message", "bogus") }

RefreshResponses(fr, t, st) ==
    { CredResp("nouser", fr.body.acct, FreshSerial(st.access), life, t) : life \in AccessLives }
    \cup { OkResp("empty"), OkResp("null") }

ResendResponses ==
    { OkResp("status_true"), OkResp("in_progress"), OkResp("status_false"), OkResp("null") }

ConfirmResponses(fr, t, st) ==
    { CredResp(shape, AcctOfCode(fr.arg), FreshSerial(st.access), life, t) :
        shape \in {"full", "nouser"}, life \in AccessLives }
    \cup { OkResp("empty"), OkResp("null") }

Responses(fr, t, st) ==
    CommonErrors \cup
    ( CASE fr.url = API_ROUTES.login -> LoginResponses(fr, t, st)
        [] fr.url = API_ROUTES.refresh -> RefreshResponses(fr, t, st)
        [] fr.url = API_ROUTES.resendEmail -> ResendResponses
        [] fr.url = API_ROUTES.confirmEmail -> ConfirmResponses(fr, t, st)
        [] OTHER -> { OkResp("empty") } )

----------------------------------------------------------------------------
(* stores/useModalStore.ts *)

\* const ANIMATION_DURATION = 200
ANIMATION_DURATION == 200

\* The elements shown in the modal: with and without a handleClose prop.
\* NoContent is the null content.
NoContent == [id |-> 0, handleClose |-> FALSE]
ModalContents == {[id |-> 1, handleClose |-> TRUE], [id |-> 2, handleClose |-> FALSE]}

\* The store's state and the times at which the pending timeouts are due.
ModalState(isOpen, isClosing, content, timers) ==
    [isOpen |-> isOpen, isClosing |-> isClosing, content |-> content, timers |-> timers]

\* The state the store is created with (lines 27-29); also what _resetModal and
\* the timeout callback set (lines 44, 47).
ModalClosed == ModalState(FALSE, FALSE, NoContent, <<>>)

\* openModal(content), line 32
openModal(m, content) == [m EXCEPT !.isOpen = TRUE, !.isClosing = FALSE, !.content = content]

\* closeModal() at time t, lines 33-46
closeModal(m, t) ==
    IF m.isClosing THEN m
    ELSE [m EXCEPT !.isClosing = TRUE, !.timers = Append(@, t + ANIMATION_DURATION)]

\* The callback of setTimeout, line 44, and _resetModal, line 47
resetModal(m) == [m EXCEPT !.isOpen = FALSE, !.isClosing = FALSE, !.content = NoContent]

----------------------------------------------------------------------------
(* Initial state: the store is created over whatever localStorage holds *)

\* localStorage left by an earlier page load at time 0.
LeftoverStorage ==
    { StorageOf(NoToken, NoToken, NoUser),
      StorageOf(Token(1, 0, "access", ExpAt(0, TOKEN_REFRESH_THRESHOLD_MS + TickMs \div 3)),
                Token(1, 0, "refresh", ExpAt(0, RefreshLife)), 1),
      StorageOf(Token(1, 0, "access", ExpAt(0, TOKEN_REFRESH_THRESHOLD_MS)),
                Token(1, 0, "refresh", ExpAt(0, RefreshLife)), 1),
      StorageOf(Token(1, 0, "access", ExpAt(0, TOKEN_REFRESH_THRESHOLD_MS)), NoToken, 1),
      StorageOf(Token(1, 0, "access", 0), Token(1, 0, "refresh", 0), 1) }

EmptyMap == [i \in {} |-> AttemptRecord(0, 0, 0)]

\* useAuthStore = create(...), lines 104-108; authRateLimiter = new RateLimiter(...);
\* n: the calls the UI will make.
Start(n) ==
    /\ storage \in LeftoverStorage
    /\ isLogged = isTokenValid(storage.refresh, 0)
    /\ isLoading = FALSE
    /\ confirmEmailToken = ""
    /\ attempts = EmptyMap
    /\ frames = <<>>
    /\ returned = <<>>
    /\ now = 0
    /\ left = n
    /\ modal = ModalClosed

Init == Start(MaxCalls)

----------------------------------------------------------------------------
(* Actions: one event-loop task each *)

\* The code that runs between two tasks (microtasks) has run: no request
\* interceptor is pending.
Quiet == \A f \in DOMAIN frames : frames[f].phase # "call"

\* The UI may start another call.
UiFree ==
    /\ Quiet
    /\ left > 0
    /\ Cardinality({i \in DOMAIN frames : frames[i].via = "ui"}) < MaxConcurrent

\* The task of a call from the UI: the method up to its first await (or to its
\* return) leaves s.
Call(s) == Apply(s) /\ left' = left - 1

LogIn == \E email \in Emails, gc \in BOOLEAN : UiFree /\ Call(logIn(Cur, email, gc))

LogOut == UiFree /\ Call(logOutCall(Cur, "ui"))

Register == \E match \in BOOLEAN : UiFree /\ Call(register(Cur, match))

ResendConfirmationEmail ==
    \E token \in ConfirmTokens : UiFree /\ Call(resendConfirmationEmail(Cur, token, 0, "ui"))

ConfirmEmail == \E code \in Codes : UiFree /\ Call(confirmEmail(Cur, code))

RequestPasswordReset ==
    UiFree /\ Call(passwordCall(Cur, "requestPasswordReset", API_ROUTES.resetPassword))

ResetPassword ==
    UiFree /\ Call(passwordCall(Cur, "resetPassword", API_ROUTES.resetPasswordConfirm))

ChangePassword ==
    UiFree /\ Call(passwordCall(Cur, "changePassword", API_ROUTES.changePassword))

\* Another module queries the backend through the axios instance.
ApiCall == UiFree /\ Call(apiCall(Cur, API_ROUTES.profile))

\* The request interceptor of a forced logOut's request runs.
Intercept ==
    \E f \in DOMAIN frames :
        /\ frames[f].phase = "call"
        /\ Apply(RequestInterceptor(Cur, f))
        /\ left' = left

\* The task in which the answer r to the request of frame f is handled.
Answer(f, r) ==
    /\ Apply(IF r.ok THEN Settle(Cur, f, r) ELSE ResponseInterceptor(Cur, f, r))
    /\ left' = left

\* The backend's answer to a request arrives (or the transport fails).
Respond ==
    \E f \in DOMAIN frames :
        /\ Quiet
        /\ frames[f].phase = "inflight"
        /\ \E r \in Responses(frames[f], now, storage) : Answer(f, r)

\* Time passes.
Tick ==
    /\ Quiet
    /\ now < MaxTicks * TickMs
    /\ now' = now + TickMs
    /\ returned' = <<>>
    /\ UNCHANGED <<modal, isLogged, isLoading, confirmEmailToken, storage, attempts, frames, left>>

\* All the store's methods, the axios instance, the backend and the clock.
Next ==
    \/ LogIn
    \/ LogOut
    \/ Register
    \/ ResendConfirmationEmail
    \/ ConfirmEmail
    \/ RequestPasswordReset
    \/ ResetPassword
    \/ ChangePassword
    \/ ApiCall
    \/ Intercept
    \/ Respond
    \/ Tick

Spec == Init /\ [][Next]_vars

\* Logins and resends of the confirmation email, within one tick.
NextLogin ==
    \/ LogIn
    \/ ResendConfirmationEmail
    \/ Intercept
    \/ Respond

SpecLogin == Start(MaxLoginCalls) /\ [][NextLogin]_vars

\* An open session: queries, password change and logout over the stored tokens.
NextSession ==
    \/ LogOut
    \/ ChangePassword
    \/ ApiCall
    \/ Intercept
    \/ Respond
    \/ Tick

SpecSession == Start(MaxSessionCalls) /\ [][NextSession]_vars

\* The three password methods alone, over every leftover storage.
NextPassword ==
    \/ RequestPasswordReset
    \/ ResetPassword
    \/ ChangePassword
    \/ Intercept
    \/ Respond
    \/ Tick

SpecPassword == Start(MaxPasswordCalls) /\ [][NextPassword]_vars

\* A few logins and resends, below the limiter's threshold.
SpecClassify == Start(MaxClassifyCalls) /\ [][NextLogin]_vars

\* Logins that reveal an unconfirmed email, and confirmations.
NextConfirm ==
    \/ LogIn
    \/ ConfirmEmail
    \/ Intercept
    \/ Respond

SpecConfirm == Start(MaxConfirmCalls) /\ [][NextConfirm]_vars

\* The login form is submitted again while earlier submissions are pending:
\* logIn itself does not look at isLoading (lines 114-123).
LogInOverlapping ==
    \E email \in Emails, gc \in BOOLEAN :
        /\ Quiet
        /\ left > 0
        /\ Cardinality({i \in DOMAIN frames : frames[i].via = "ui"}) < MaxOverlap
        /\ Call(logIn(Cur, email, gc))

\* Logins for one email that may overlap, within one tick, from the login page
\* of a browser whose localStorage holds no session.
NextOverlap ==
    \/ LogInOverlapping
    \/ Intercept
    \/ Respond

StartOverlap == Start(MaxOverlapCalls) /\ storage = StorageOf(NoToken, NoToken, NoUser)

SpecOverlap == StartOverlap /\ [][NextOverlap]_vars

\* Queries and password changes over the stored tokens, no login and no
\* confirmation; every request is answered in the end (or fails in transport)
\* and every pending interceptor runs.
NextRefresh ==
    \/ ChangePassword
    \/ ApiCall
    \/ Intercept
    \/ Respond
    \/ Tick

SpecRefresh ==
    /\ Start(MaxRefreshCalls)
    /\ [][NextRefresh]_vars
    /\ WF_vars(Respond)
    /\ WF_vars(Intercept)

----------------------------------------------------------------------------
(* The rate limiter alone: any caller, any order, a finer clock *)

\* A call of a limiter method on id that returned: for checkLimit whether it
\* allowed, for reset whether id was blocked when it was reset.
LimiterEvent(kind, id, res) == Event(kind, id, FALSE, "ui", res, NoToken, 0, 0, 0, TRUE)

\* A caller calls authRateLimiter.checkLimit(id).
CheckLimit ==
    \E id \in Emails :
        /\ left > 0
        /\ attempts' = checkLimit(authRateLimiterConfig, attempts, id, now).attempts
        /\ returned' = << LimiterEvent("checkLimit", id,
                                       IF checkLimit(authRateLimiterConfig, attempts, id, now).isAllowed
                                       THEN "allowed" ELSE "denied") >>
        /\ left' = left - 1
        /\ UNCHANGED <<modal, isLogged, isLoading, confirmEmailToken, storage, frames, now>>

\* A caller calls authRateLimiter.recordAttempt(id).
RecordAttempt ==
    \E id \in Emails :
        /\ left > 0
        /\ attempts' = recordAttempt(authRateLimiterConfig, attempts, id, now)
        /\ returned' = << LimiterEvent("recordAttempt", id, "void") >>
        /\ left' = left - 1
        /\ UNCHANGED <<modal, isLogged, isLoading, confirmEmailToken, storage, frames, now>>

\* A caller calls authRateLimiter.reset(id).
Reset ==
    \E id \in Emails :
        /\ left > 0
        /\ attempts' = reset(attempts, id)
        /\ returned' = << LimiterEvent("reset", id,
                                       IF id \in DOMAIN attempts /\ attempts[id].blockedUntil > now
                                       THEN "blocked" ELSE "open") >>
        /\ left' = left - 1
        /\ UNCHANGED <<modal, isLogged, isLoading, confirmEmailToken, storage, frames, now>>

\* Five minutes pass.
Advance ==
    /\ now < MaxLimiterTicks * LimiterTickMs
    /\ now' = now + LimiterTickMs
    /\ returned' = <<>>
    /\ UNCHANGED <<modal, isLogged, isLoading, confirmEmailToken, storage, attempts, frames, left>>

NextLimiter ==
    \/ CheckLimit
    \/ RecordAttempt
    \/ Reset
    \/ Advance

SpecLimiter == Start(MaxLimiterCalls) /\ [][NextLimiter]_vars

----------------------------------------------------------------------------
(* The two token checks alone: any stored token, any time *)

\* A stored access token: decodable with any exp claim, or not decodable.
TokenSamples == {Token(1, 0, "access", exp) : exp \in 0..MaxTokenExp} \cup {JunkToken}

\* Date.now() when the check is made.
ClockSamples == {k * 500 : k \in 0..MaxTokenClock}

StartToken ==
    /\ storage \in {StorageOf(tok, NoToken, NoUser) : tok \in TokenSamples}
    /\ now \in ClockSamples
    /\ isLogged = FALSE
    /\ isLoading = FALSE
    /\ confirmEmailToken = ""
    /\ attempts = EmptyMap
    /\ frames = <<>>
    /\ returned = <<>>
    /\ left = 0
    /\ modal = ModalClosed

\* The result of a token check on tok.
TokenEvent(kind, tok, res) ==
    Event(kind, "", FALSE, "ui", IF res THEN "true" ELSE "false", tok, 0, 0, 0, TRUE)

\* isTokenValid(storage.getAccessToken())
IsTokenValid ==
    /\ returned' = << TokenEvent("isTokenValid", storage.access,
                                 isTokenValid(storage.access, now)) >>
    /\ UNCHANGED <<modal, isLogged, isLoading, confirmEmailToken, storage, attempts, frames, now, left>>

\* isTokenExpiringSoon(storage.getAccessToken())
IsTokenExpiringSoon ==
    /\ returned' = << TokenEvent("isTokenExpiringSoon", storage.access,
                                 isTokenExpiringSoon(storage.access, now)) >>
    /\ UNCHANGED <<modal, isLogged, isLoading, confirmEmailToken, storage, attempts, frames, now, left>>

NextToken ==
    \/ IsTokenValid
    \/ IsTokenExpiringSoon

SpecToken == StartToken /\ [][NextToken]_vars

----------------------------------------------------------------------------
(* The modal store alone: its callers, its timeouts and the clock *)

\* Half the closing animation passes between two readings of the clock.
ModalTickMs == ANIMATION_DURATION \div 2

\* What the model's step did to the modal store.
ModalEvent(kind) == Event(kind, "", FALSE, "ui", "void", NoToken, 0, 0, 0, TRUE)

\* The step leaves the auth store alone.
AuthUnchanged == UNCHANGED <<isLogged, isLoading, confirmEmailToken, storage, attempts, frames>>

\* A component calls openModal(content).
OpenModal ==
    \E content \in ModalContents :
        /\ left > 0
        /\ modal' = openModal(modal, content)
        /\ returned' = << ModalEvent("openModal") >>
        /\ left' = left - 1
        /\ now' = now
        /\ AuthUnchanged

\* closeModal() with the events it causes: content.props.handleClose() is
\* called when the modal is not closing already and the prop is a function.
CloseModalCall(kind) ==
    /\ left > 0
    /\ IF modal.isClosing THEN TRUE ELSE Len(modal.timers) < MaxTimers
    /\ modal' = closeModal(modal, now)
    /\ returned' = << ModalEvent(kind) >> \o
                   (IF ~modal.isClosing /\ modal.content.handleClose
                    THEN << ModalEvent("handleClose") >> ELSE <<>>)
    /\ left' = left - 1
    /\ now' = now
    /\ AuthUnchanged

\* The close button or the overlay is clicked (ModalBase.tsx 17-21, 40): they
\* exist while the modal is rendered (line 30).
CloseModal == ~(~modal.isOpen /\ ~modal.isClosing) /\ CloseModalCall("closeModal")

\* The route changes (ModalBase.tsx 24-28).
RouteChange ==
    IF modal.isOpen /\ ~modal.isClosing
    THEN CloseModalCall("routeChange")
    ELSE /\ left > 0
         /\ returned' = << ModalEvent("routeChange") >>
         /\ left' = left - 1
         /\ UNCHANGED <<modal, now>>
         /\ AuthUnchanged

\* A component calls _resetModal().
ResetModal ==
    /\ left > 0
    /\ modal' = resetModal(modal)
    /\ returned' = << ModalEvent("_resetModal") >>
    /\ left' = left - 1
    /\ now' = now
    /\ AuthUnchanged

\* The oldest pending timeout is due: its callback runs (lines 43-45).
Timeout ==
    /\ modal.timers # <<>>
    /\ Head(modal.timers) <= now
    /\ modal' = [resetModal(modal) EXCEPT !.timers = Tail(@)]
    /\ returned' = << ModalEvent("timeout") >>
    /\ UNCHANGED <<now, left>>
    /\ AuthUnchanged

\* Time passes while no timeout is due.
ModalTick ==
    /\ now < MaxModalTicks * ModalTickMs
    /\ IF modal.timers = <<>> THEN TRUE ELSE Head(modal.timers) > now
    /\ now' = now + ModalTickMs
    /\ returned' = <<>>
    /\ UNCHANGED <<modal, left>>
    /\ AuthUnchanged

NextModal ==
    \/ OpenModal
    \/ CloseModal
    \/ RouteChange
    \/ ResetModal
    \/ Timeout
    \/ ModalTick

StartModal == Start(MaxModalCalls) /\ storage = StorageOf(NoToken, NoToken, NoUser)

SpecModal == StartModal /\ [][NextModal]_vars

----------------------------------------------------------------------------
(* Properties *)

\* The frames the step has started: the frames of the next state that are not
\* frames of this state (a frame that returns has sent a request; a call that
\* returns before its first await has not).
Returning == {i \in DOMAIN returned' : returned'[i].nreq > 0}
NewFrames == (Len(frames) - Cardinality(Returning) + 1) .. Len(frames')

\* C1: a request that failed with 401, with an error code that does not trigger
\* a logout and a URL that is neither allow-listed nor the refresh route, is
\* resubmitted by the response interceptor at most once, whatever the server
\* answers to the resubmitted request: no call has more than one resubmission.
C1_ResubmittedAtMostOnce ==
    /\ \A f \in DOMAIN frames : frames[f].tries <= 1
    /\ \A i \in DOMAIN returned : returned[i].tries <= 1

\* checkLimit(id) at time t over the records att denies, with retryAfter > 0.
Denied(att, id, t) ==
    LET r == checkLimit(authRateLimiterConfig, att, id, t)
    IN  ~r.isAllowed /\ r.retryAfter > 0

\* maxAttempts attempts are recorded for id in a window that is still open at t.
LimitReached(att, id, t) ==
    /\ id \in DOMAIN att
    /\ att[id].count >= authRateLimiterConfig.maxAttempts
    /\ t - att[id].firstAttemptTime <= authRateLimiterConfig.windowMs

\* C2: rate limiter lockout.  After every call and every advance of the clock:
\* once maxAttempts attempts are recorded for id within windowMs, checkLimit(id)
\* denies with retryAfter > 0; and a block set by a check (until blockedUntil =
\* that check's time + blockDurationMs) keeps every checkLimit(id) denied while
\* that time has not come, whatever calls of checkLimit and recordAttempt and
\* advances of the clock come between, reset(id) excepted.
C2_LockoutHolds ==
    [][\A id \in Emails :
          /\ LimitReached(attempts', id, now') => Denied(attempts', id, now')
          /\ ( /\ id \in DOMAIN attempts
               /\ attempts[id].blockedUntil > now'
               /\ attempts' # reset(attempts, id) )
             => Denied(attempts', id, now')]_vars

\* The step is the task of a call logIn(credentials) from the UI.
LogInStep(email, gc) == UiFree /\ Call(logIn(Cur, email, gc))

\* The step is the task that handles the answer r to the request of frame f.
AnswerStep(f, r) == Quiet /\ frames[f].phase = "inflight" /\ Answer(f, r)

\* The next state holds the return of a call with these fields.
Returns(kind, arg, via, res) ==
    \E i \in DOMAIN returned' :
        /\ returned'[i].kind = kind
        /\ returned'[i].arg = arg
        /\ returned'[i].via = via
        /\ returned'[i].res = res

\* C3: when authRateLimiter.checkLimit(credentials.email) denies, logIn
\* returns 'error' without sending a request (no frame is started, the call has
\* sent nothing), and isLogged, confirmEmailToken, Token Storage and the attempt
\* count of that email are what they were.
C3_DeniedLogIn ==
    [][\A email \in Emails, gc \in BOOLEAN :
          ( /\ ~checkLimit(authRateLimiterConfig, attempts, email, now).isAllowed
            /\ LogInStep(email, gc) )
          => /\ returned' = << Event("logIn", email, gc, "ui", "error", NoToken, 0, 0, 0, TRUE) >>
             /\ frames' = frames
             /\ isLogged' = isLogged
             /\ confirmEmailToken' = confirmEmailToken
             /\ storage' = storage
             /\ email \in DOMAIN attempts'
             /\ attempts'[email].count = attempts[email].count]_vars

\* A denied logIn has returned: the email is blocked, the call sent nothing.
C3_Witness ==
    \E i \in DOMAIN returned :
        /\ returned[i].kind = "logIn"
        /\ returned[i].res = "error"
        /\ returned[i].nreq = 0
        /\ returned[i].arg \in DOMAIN attempts
        /\ attempts[returned[i].arg].blockedUntil > now

\* C4: when the login request succeeds with {access, refresh, user}, logIn
\* returns 'success', and then isLogged = true, isLoading = false,
\* confirmEmailToken = null, Token Storage holds exactly that access token,
\* refresh token and user, and the limiter has no record for credentials.email.
C4_LogInSuccess ==
    [][\A f \in DOMAIN frames : \A r \in Responses(frames[f], now, storage) :
          ( /\ frames[f].kind = "logIn"
            /\ r.ok /\ r.shape = "full"
            /\ AnswerStep(f, r) )
          => /\ Returns("logIn", frames[f].arg, "ui", "success")
             /\ isLogged'
             /\ ~isLoading'
             /\ confirmEmailToken' = ""
             /\ storage' = StorageOf(r.access, r.refresh, r.user)
             /\ frames[f].arg \notin DOMAIN attempts']_vars

\* A login has succeeded after an earlier failure for an unconfirmed email.
C4_Witness ==
    /\ \E i \in DOMAIN returned :
          /\ returned[i].kind = "logIn"
          /\ returned[i].res = "success"
          /\ returned[i].arg \notin DOMAIN attempts
    /\ isLogged
    /\ storage.access.kind = "access"
    /\ storage.user = storage.access.acct
    /\ \E token \in ConfirmTokens : ResendKey(token) \in DOMAIN attempts

\* The step handles a failure of a login without one-time code whose payload
\* is {token: [r.str]}.
UnconfirmedStep(f, r) ==
    /\ frames[f].kind = "logIn"
    /\ ~frames[f].gc
    /\ ~r.ok /\ ErrorToken(r) # ""
    /\ AnswerStep(f, r)

\* The step handles the answer to the resend nested in a logIn.
NestedResendStep(g, r) ==
    /\ frames[g].kind = "resendConfirmationEmail"
    /\ frames[g].via = "logIn"
    /\ AnswerStep(g, r)

\* The step starts the resend nested in logIn: one request, carrying token.
NestedResendStarted(token) ==
    \E g \in NewFrames :
        /\ frames'[g].kind = "resendConfirmationEmail"
        /\ frames'[g].via = "logIn"
        /\ frames'[g].arg = token
        /\ frames'[g].url = API_ROUTES.resendEmail
        /\ frames'[g].nreq = 1

\* C5 as the specification states it: a login without one-time code that fails
\* with {token: [t]} sets confirmEmailToken to t and calls the resend endpoint
\* once with t, and logIn returns 'confirm_email' with confirmEmailToken = t,
\* whatever logins and resends came before.
C5_AlwaysConfirmEmail ==
    [][ /\ \A f \in DOMAIN frames : \A r \in Responses(frames[f], now, storage) :
              UnconfirmedStep(f, r)
              => confirmEmailToken' = r.str /\ NestedResendStarted(r.str)
        /\ \A g \in DOMAIN frames : \A r \in Responses(frames[g], now, storage) :
              NestedResendStep(g, r)
              => /\ Returns("logIn", frames[frames[g].parent].arg, "ui", "confirm_email")
                 /\ confirmEmailToken' = frames[g].arg ]_vars

\* C5, amended: a login without one-time code that fails with {token: [t]} sets
\* confirmEmailToken to t; if the limiter denies 'resend:t' the resend endpoint
\* is not called and logIn returns 'error' at once; otherwise the endpoint is
\* called once with t, and when that call settles logIn returns 'error' if the
\* resend returned 'error' and 'confirm_email' if it returned 'sent' or
\* 'in_progress', leaving confirmEmailToken as it is at that moment.
C5_ConfirmEmailOrError ==
    [][ /\ \A f \in DOMAIN frames : \A r \in Responses(frames[f], now, storage) :
              UnconfirmedStep(f, r)
              => /\ confirmEmailToken' = r.str
                 /\ IF checkLimit(authRateLimiterConfig, attempts, ResendKey(r.str), now).isAllowed
                    THEN /\ NestedResendStarted(r.str)
                         /\ returned' = <<>>
                    ELSE /\ NewFrames = {}
                         /\ returned' =
                              << Event("resendConfirmationEmail", r.str, FALSE, "logIn",
                                       "error", NoToken, 0, 0, 0, TRUE),
                                 Event("logIn", frames[f].arg, FALSE, "ui",
                                       "error", NoToken, 1, 0, 0, FALSE) >>
        /\ \A g \in DOMAIN frames : \A r \in Responses(frames[g], now, storage) :
              NestedResendStep(g, r)
              => LET sent == IF r.ok /\ r.shape = "status_true" THEN "sent"
                             ELSE IF r.ok /\ r.shape = "in_progress" THEN "in_progress"
                             ELSE "error"
                 IN  /\ returned' =
                          << Event("resendConfirmationEmail", frames[g].arg, FALSE, "logIn",
                                   sent, NoToken, 1, 0, 0, r.ok),
                             Event("logIn", frames[frames[g].parent].arg, FALSE, "ui",
                                   IF sent = "error" THEN "error" ELSE "confirm_email",
                                   NoToken, 1, 0, 1, FALSE) >>
                     /\ confirmEmailToken' = confirmEmailToken ]_vars

\* A logIn whose nested resend was denied by the limiter has returned 'error',
\* with the confirmation token stored.
C5_Witness ==
    /\ Len(returned) = 2
    /\ returned[1].kind = "resendConfirmationEmail"
    /\ returned[1].via = "logIn"
    /\ returned[1].nreq = 0
    /\ returned[2].kind = "logIn"
    /\ returned[2].res = "error"
    /\ confirmEmailToken = returned[1].arg

\* C6: whether the logout request resolved or was rejected, when logOut
\* returns the three storage keys are absent, isLogged = false, isLoading =
\* false and confirmEmailToken = null.
C6_LogOutClears ==
    \A i \in DOMAIN returned :
        returned[i].kind = "logOut"
        => /\ returned[i].res = "void"
           /\ storage = StorageOf(NoToken, NoToken, NoUser)
           /\ ~isLogged
           /\ ~isLoading
           /\ confirmEmailToken = ""

\* A logOut called from the UI has returned after its request was rejected.
C6_Witness ==
    \E i \in DOMAIN returned :
        /\ returned[i].kind = "logOut"
        /\ returned[i].via = "ui"
        /\ ~returned[i].ok
        /\ storage = StorageOf(NoToken, NoToken, NoUser)

\* Token Storage holds an access token that is expiring soon at time t.
ExpiringAccess(st, t) == st.access # NoToken /\ isTokenExpiringSoon(st.access, t)

\* C7: a getAccessToken call that finds an expiring-soon access token and a
\* stored refresh token sends exactly one refresh request, carrying that refresh
\* token (it never returns without one, and a refresh request is only ever
\* started this way); when the request succeeds with a new pair, the pair
\* replaces the stored one and the call returns the new access token.
C7_RefreshOnce ==
    [][ /\ \A g \in NewFrames :
              frames'[g].kind = "getAccessToken"
              => /\ ExpiringAccess(storage, now)
                 /\ storage.refresh # NoToken
                 /\ frames'[g].url = API_ROUTES.refresh
                 /\ frames'[g].body = storage.refresh
                 /\ frames'[g].nreq = 1
        /\ \A i \in DOMAIN returned' :
              returned'[i].kind = "getAccessToken"
              => IF returned'[i].nreq = 0
                 THEN ~(ExpiringAccess(storage', now) /\ storage'.refresh # NoToken)
                 ELSE returned'[i].nreq = 1
        /\ \A f \in DOMAIN frames : \A r \in Responses(frames[f], now, storage) :
              ( /\ frames[f].kind = "getAccessToken"
                /\ r.ok /\ r.shape \in {"full", "nouser"}
                /\ AnswerStep(f, r) )
              => /\ storage'.access = r.access
                 /\ storage'.refresh = r.refresh
                 /\ \E i \in DOMAIN returned' :
                       /\ returned'[i].kind = "getAccessToken"
                       /\ returned'[i].nreq = 1
                       /\ returned'[i].res = "token"
                       /\ returned'[i].tok = r.access ]_vars

\* A getAccessToken call has returned the access token of a new pair, which is
\* the stored one.
C7_Witness ==
    \E i \in DOMAIN returned :
        /\ returned[i].kind = "getAccessToken"
        /\ returned[i].nreq = 1
        /\ returned[i].res = "token"
        /\ returned[i].tok = storage.access
        /\ storage.access.n # 0
        /\ storage.refresh.n = storage.access.n

\* C8: getAccessToken called with an expiring-soon access token and no stored
\* refresh token returns undefined without a refresh request, and isLogged is
\* false when it has returned.
C8_NoRefreshToken ==
    [][ (ExpiringAccess(storage, now) /\ storage.refresh = NoToken)
        => /\ \A g \in NewFrames : frames'[g].kind # "getAccessToken"
           /\ \A i \in DOMAIN returned' :
                 returned'[i].kind = "getAccessToken"
                 => /\ returned'[i].res = "undefined"
                    /\ returned'[i].tok = NoToken
                    /\ returned'[i].nreq = 0
                    /\ ~isLogged' ]_vars

\* getAccessToken has returned undefined over an expiring-soon access token
\* and no refresh token, and has started a forced logOut.
C8_Witness ==
    /\ ExpiringAccess(storage, now)
    /\ storage.refresh = NoToken
    /\ \E i \in DOMAIN returned :
          returned[i].kind = "getAccessToken" /\ returned[i].res = "undefined"
    /\ \E f \in DOMAIN frames : frames[f].kind = "logOut" /\ frames[f].via = "forced"

\* The methods that set isLoading, and the ones that answer a boolean.
LoadingMethods ==
    {"logIn", "logOut", "register", "confirmEmail", "requestPasswordReset",
     "resetPassword", "changePassword"}
BooleanMethods ==
    {"register", "confirmEmail", "requestPasswordReset", "resetPassword", "changePassword"}

\* The step starts a forced logOut (which sets isLoading on its own account).
ForcedLogOutStarted ==
    \E g \in NewFrames : frames'[g].kind = "logOut" /\ frames'[g].via = "forced"

\* C9 as the specification states it: each of logIn, logOut, register,
\* resendConfirmationEmail, confirmEmail, requestPasswordReset, resetPassword
\* and changePassword has set isLoading = true when its call from the UI has
\* started, and isLoading = false when it has returned; only the resend nested
\* in logIn is exempt.
C9_LoadingAroundEveryCall ==
    [][ /\ \A g \in NewFrames :
              ( /\ frames'[g].kind \in LoadingMethods \cup {"resendConfirmationEmail"}
                /\ frames'[g].via = "ui" )
              => isLoading'
        /\ \A i \in DOMAIN returned' :
              ( /\ returned'[i].kind \in LoadingMethods \cup {"resendConfirmationEmail"}
                /\ returned'[i].via # "logIn" )
              => ~isLoading' ]_vars

\* C9, amended: each of logIn, logOut, register, confirmEmail,
\* requestPasswordReset, resetPassword and changePassword has set isLoading =
\* true when its call has started its request, and isLoading is false when it
\* returns after that request; a call that returns before any request (the
\* limiter denies, the passwords differ) leaves isLoading as it was;
\* resendConfirmationEmail never writes isLoading, neither called from the UI
\* nor nested in logIn, where logIn leaves it as it is until the nested call
\* has settled.
C9_LoadingAroundRequests ==
    [][ /\ \A g \in NewFrames :
              (frames'[g].kind \in LoadingMethods /\ frames'[g].via = "ui")
              => isLoading'
        /\ \A i \in DOMAIN returned' :
              returned'[i].kind \in LoadingMethods
              => IF returned'[i].nreq > 0 THEN ~isLoading' ELSE isLoading' = isLoading
        /\ \A g \in NewFrames :
              (frames'[g].kind = "resendConfirmationEmail" /\ ~ForcedLogOutStarted)
              => isLoading' = isLoading
        /\ \A i \in DOMAIN returned' :
              ( /\ returned'[i].kind = "resendConfirmationEmail"
                /\ returned'[i].via = "ui"
                /\ ~ForcedLogOutStarted )
              => isLoading' = isLoading ]_vars

\* A resend called from the UI is in flight and isLoading is false.
C9_Witness ==
    /\ ~isLoading
    /\ \E f \in DOMAIN frames :
          /\ frames[f].kind = "resendConfirmationEmail"
          /\ frames[f].via = "ui"
          /\ frames[f].phase = "inflight"

\* C10: no public method of the store ends in a thrown exception, whatever the
\* outcome of its requests: logIn returns exactly one AuthResult tag,
\* resendConfirmationEmail 'sent', 'in_progress' or 'error', register,
\* confirmEmail, requestPasswordReset, resetPassword and changePassword a
\* boolean, getAccessToken a token or undefined, logOut nothing.
C10_TypedResults ==
    \A i \in DOMAIN returned :
        LET e == returned[i] IN
        /\ e.kind = "logIn" => e.res \in AuthResult
        /\ e.kind = "resendConfirmationEmail" => e.res \in {"sent", "in_progress", "error"}
        /\ e.kind \in BooleanMethods => e.res \in {"true", "false"}
        /\ e.kind = "getAccessToken"
           => \/ e.res = "token" /\ e.tok.kind \in {"access", "junk"}
              \/ e.res = "undefined" /\ e.tok = NoToken
        /\ e.kind = "logOut" => e.res = "void"

\* A method has returned its typed result after a 2xx answer whose body is
\* null, which makes the method's own code throw inside its try block.
C10_Witness ==
    \E i \in DOMAIN returned :
        /\ returned[i].kind \in {"logIn", "confirmEmail"}
        /\ returned[i].ok
        /\ returned[i].res \in {"error", "otp_fail", "false"}


\* requestPasswordReset, resetPassword, changePassword
PasswordMethods == {"requestPasswordReset", "resetPassword", "changePassword"}

\* C11 as the specification states it: running requestPasswordReset,
\* resetPassword or changePassword never changes isLogged, whatever the server
\* answers and whatever the stored tokens are.  Where these three methods are
\* all the UI calls, every change of isLogged is the work of such a call or of
\* what it triggered, and none is ever undone: isLogged never changes.
C11_IsLoggedKept == [][isLogged' = isLogged]_vars

\* C11, amended: the body of requestPasswordReset, resetPassword and
\* changePassword never writes isLogged (the task that starts one and the task
\* in which one returns leave it as it is); while such a call runs isLogged
\* changes only when a logOut forced by the interceptors completes, and then it
\* becomes false.
C11_OnlyForcedLogOut ==
    [][ /\ \A g \in NewFrames : frames'[g].kind \in PasswordMethods => isLogged' = isLogged
        /\ \A i \in DOMAIN returned' :
              returned'[i].kind \in PasswordMethods => isLogged' = isLogged
        /\ isLogged' # isLogged
           => /\ ~isLogged'
              /\ \E i \in DOMAIN returned' :
                    returned'[i].kind = "logOut" /\ returned'[i].via = "forced" ]_vars

\* A password method has returned false after a 401 that forced a logOut, which
\* is still in flight: the session is still logged in.
C11_Witness ==
    /\ isLogged
    /\ \E i \in DOMAIN returned :
          /\ returned[i].kind \in PasswordMethods
          /\ returned[i].res = "false"
    /\ \E f \in DOMAIN frames : frames[f].kind = "logOut" /\ frames[f].via = "forced"

\* The logOut calls nobody awaits that the step has started.
ForcedLogOutsStarted ==
    {g \in NewFrames : frames'[g].kind = "logOut" /\ frames'[g].via = "forced"}

\* The call of frame f gets the rejection of its request in this step and its
\* request was not sent again: the call returns, or it is a logIn that goes on
\* to its nested resend.
RejectedTo(f) ==
    \/ \E i \in DOMAIN returned' :
          /\ returned'[i].kind = frames[f].kind
          /\ returned'[i].arg = frames[f].arg
          /\ returned'[i].via = frames[f].via
          /\ ~returned'[i].ok
          /\ returned'[i].nreq = frames[f].nreq
          /\ returned'[i].tries = frames[f].tries
    \/ /\ frames[f].kind = "logIn"
       /\ f \in DOMAIN frames'
       /\ frames'[f].phase = "nested"
       /\ ~frames'[f].ok
       /\ frames'[f].nreq = frames[f].nreq
       /\ frames'[f].tries = frames[f].tries

\* C12: on an error response with status 401 whose code is in
\* LOGOUT_ERROR_CODES the response interceptor calls logOut once, calls no
\* getAccessToken, does not resubmit and rejects into the caller; on 503, on
\* every other status than 401 (and on an error without response) it calls no
\* logOut, no getAccessToken, does not resubmit and rejects into the caller.
\* (A getAccessToken whose refresh request is rejected calls logOut itself.)
C12_InterceptorRejects ==
    [][\A f \in DOMAIN frames : \A r \in Responses(frames[f], now, storage) :
          ( /\ ~r.ok
            /\ r.status # 401 \/ r.code \in LOGOUT_ERROR_CODES
            /\ AnswerStep(f, r) )
          => /\ RejectedTo(f)
             /\ \A g \in NewFrames : frames'[g].kind # "getAccessToken"
             /\ \A i \in DOMAIN returned' :
                   returned'[i].kind = "getAccessToken" => returned'[i].nreq > 0
             /\ Cardinality(ForcedLogOutsStarted) =
                   (IF r.status = 401 THEN 1 ELSE 0)
                   + (IF frames[f].kind = "getAccessToken" THEN 1 ELSE 0) ]_vars

\* A query was rejected with 401 and a logout-triggering code: the query has
\* returned its rejection after one request and the forced logOut has started.
C12_Witness ==
    /\ \E i \in DOMAIN returned :
          /\ returned[i].kind = "api"
          /\ returned[i].res = "rejected"
          /\ returned[i].nreq = 1
    /\ \E f \in DOMAIN frames :
          /\ frames[f].kind = "logOut"
          /\ frames[f].via = "forced"
          /\ frames[f].phase = "call"
    /\ isLoading

\* Two frames hold the same call at the same point (a call's position in
\* frames, and with it the parent it names, moves when an older call returns).
SameCall(a, b) == [a EXCEPT !.parent = 0] = [b EXCEPT !.parent = 0]

\* The request of frame g of the next state has left for the server in this
\* step: the frame is at the server and was not there, as it is, before.
Sent(g) ==
    /\ frames'[g].phase = "inflight"
    /\ Cardinality({h \in DOMAIN frames' : SameCall(frames'[h], frames'[g])})
         > Cardinality({h \in DOMAIN frames : SameCall(frames[h], frames'[g])})

\* The getAccessToken calls of the request interceptor that returned in this step.
TokenForRequest ==
    {i \in DOMAIN returned' :
        returned'[i].kind = "getAccessToken" /\ returned'[i].via = "request"}

\* C13: the request interceptor never calls getAccessToken and never adds an
\* Authorization header for a request whose URL is in
\* NO_AUTH_REQUIRED_API_ROUTES; for every other URL it calls getAccessToken
\* exactly once per request it lets through, sets the bearer header to the
\* token exactly when a token was returned, and the request leaves for the
\* server in both cases.
C13_RequestInterceptor ==
    [][ /\ \A g \in DOMAIN frames' :
              frames'[g].url \in NO_AUTH_REQUIRED_API_ROUTES => frames'[g].hdr = NoToken
        /\ \A g \in DOMAIN frames' :
              Sent(g)
              => IF frames'[g].url \in NO_AUTH_REQUIRED_API_ROUTES
                 THEN TokenForRequest = {}
                 ELSE /\ Cardinality(TokenForRequest) = 1
                      /\ \A i \in TokenForRequest :
                            /\ returned'[i].tok # NoToken => frames'[g].hdr = returned'[i].tok
                            /\ (returned'[i].tok = NoToken /\ frames'[g].tries = 0)
                               => frames'[g].hdr = NoToken
        /\ TokenForRequest # {}
           => \E g \in DOMAIN frames' :
                 Sent(g) /\ frames'[g].url \notin NO_AUTH_REQUIRED_API_ROUTES ]_vars

\* A request to an allow-listed route other than the refresh route is at the
\* server without Authorization header while a usable access token is stored.
C13_Witness ==
    /\ storage.access # NoToken
    /\ ~isTokenExpiringSoon(storage.access, now)
    /\ \E f \in DOMAIN frames :
          /\ frames[f].phase = "inflight"
          /\ frames[f].url \in NO_AUTH_REQUIRED_API_ROUTES \ {API_ROUTES.refresh}
          /\ frames[f].hdr = NoToken

\* C14: reset(id) returns an identifier to the never-seen state: whatever was
\* recorded and checked for id before, an active block included,
\* checkLimit(id) right after reset(id) allows with attemptsRemaining =
\* maxAttempts - 1 and no retryAfter, and leaves the map as it is: the result
\* for an identifier the limiter has never seen.
C14_ResetForgets ==
    \A i \in DOMAIN returned :
        returned[i].kind = "reset"
        => LET id == returned[i].arg
               r == checkLimit(authRateLimiterConfig, attempts, id, now)
               fresh == checkLimit(authRateLimiterConfig, EmptyMap, id, now)
           IN  /\ r.isAllowed
               /\ r.attemptsRemaining = authRateLimiterConfig.maxAttempts - 1
               /\ r.retryAfter = fresh.retryAfter
               /\ r.attemptsRemaining = fresh.attemptsRemaining
               /\ r.isAllowed = fresh.isAllowed
               /\ r.attempts = attempts

\* reset(id) has just returned for an identifier that was blocked.
C14_Witness ==
    \E i \in DOMAIN returned :
        /\ returned[i].kind = "reset"
        /\ returned[i].res = "blocked"
        /\ now > 0

\* C15: for every token with a numeric exp (seconds) and every time now (ms),
\* isTokenValid is false whenever exp*1000 <= now, isTokenExpiringSoon is false
\* whenever exp*1000 - now > TOKEN_REFRESH_THRESHOLD_MS and true when
\* exp*1000 - now is exactly the threshold; a token that cannot be decoded is
\* invalid and expiring soon.
C15_TokenChecks ==
    \A i \in DOMAIN returned :
        LET e == returned[i]
            toExpire == e.tok.exp * 1000 - now
        IN  /\ (e.kind = "isTokenValid" /\ e.tok.kind = "access" /\ e.tok.exp * 1000 <= now)
               => e.res = "false"
            /\ (e.kind = "isTokenExpiringSoon" /\ e.tok.kind = "access"
                  /\ toExpire > TOKEN_REFRESH_THRESHOLD_MS)
               => e.res = "false"
            /\ (e.kind = "isTokenExpiringSoon" /\ e.tok.kind = "access"
                  /\ toExpire = TOKEN_REFRESH_THRESHOLD_MS)
               => e.res = "true"
            /\ (e.kind = "isTokenValid" /\ e.tok.kind = "junk") => e.res = "false"
            /\ (e.kind = "isTokenExpiringSoon" /\ e.tok.kind = "junk") => e.res = "true"

\* isTokenExpiringSoon has answered for a token exactly at the threshold, at a
\* time other than 0.
C15_Witness ==
    \E i \in DOMAIN returned :
        /\ returned[i].kind = "isTokenExpiringSoon"
        /\ returned[i].tok.kind = "access"
        /\ returned[i].tok.exp * 1000 - now = TOKEN_REFRESH_THRESHOLD_MS
        /\ now > 0
        /\ returned[i].res = "true"

\* The refresh request of a getAccessToken call was rejected in the last task.
RefreshFailed ==
    \E i \in DOMAIN returned :
        /\ returned[i].kind = "getAccessToken"
        /\ returned[i].nreq > 0
        /\ ~returned[i].ok

\* The session state LoggedOut.
LoggedOut == ~isLogged /\ storage = StorageOf(NoToken, NoToken, NoUser)

\* C16: once the refresh request of a getAccessToken call has failed, the
\* system eventually reaches LoggedOut (isLogged = false, the three storage
\* keys absent) and stays there, when every request is eventually answered and
\* no login or confirmation is started.
C16_EventuallyLoggedOut == [](RefreshFailed => <>[]LoggedOut)

\* The step handles the rejection r of the login request of frame f.
LogInFailedStep(f, r) ==
    /\ frames[f].kind = "logIn"
    /\ ~r.ok
    /\ AnswerStep(f, r)

\* The logIn of frame f returns res in this step, after its one request.
LogInReturned(f, res) ==
    \E i \in DOMAIN returned' :
        returned'[i] = Event("logIn", frames[f].arg, frames[f].gc, "ui", res, NoToken,
                             1, 0, 0, FALSE)

\* C17: on every failed login request logIn records one attempt for
\* credentials.email, then returns by the first rule that matches: a one-time
\* code in the credentials gives 'otp_fail' (whatever the payload); no payload
\* gives 'error'; a payload with token[0] takes the unconfirmed-email branch;
\* type[0] (else message[0]) = 'two_fa_failed' gives 'go2fa'; one of wrong_data,
\* reset_psw, account_block, invalid gives that value; anything else 'error'.
C17_LogInFailure ==
    [][ \A f \in {g \in DOMAIN frames : frames[g].kind = "logIn" /\ frames[g].phase = "inflight"} :
        \A r \in {x \in Responses(frames[f], now, storage) : ~x.ok} :
          LogInFailedStep(f, r)
          => LET email == frames[f].arg
                 hasToken == r.shape \in {"token", "token_type"}
                 value == IF r.shape \in {"type", "type_message", "message"} THEN r.str ELSE ""
             IN  /\ email \in DOMAIN attempts'
                 /\ attempts'[email] =
                        recordAttempt(authRateLimiterConfig, attempts, email, now)[email]
                 /\ IF frames[f].gc THEN LogInReturned(f, "otp_fail")
                    ELSE IF r.status = 0 \/ r.shape = "none" THEN LogInReturned(f, "error")
                    ELSE IF hasToken
                    THEN /\ confirmEmailToken' = r.str
                         /\ \/ NestedResendStarted(r.str) /\ frames'[f].phase = "nested"
                            \/ LogInReturned(f, "error")
                    ELSE IF value = "two_fa_failed" THEN LogInReturned(f, "go2fa")
                    ELSE IF value \in {"wrong_data", "reset_psw", "account_block", "invalid"}
                    THEN LogInReturned(f, value)
                    ELSE LogInReturned(f, "error") ]_vars

\* A logIn with a one-time code failed for the second time and returned
\* 'otp_fail'; both failures are on the limiter's record.
C17_Witness ==
    /\ \E i \in DOMAIN returned :
          /\ returned[i].kind = "logIn" /\ returned[i].gc
          /\ returned[i].res = "otp_fail" /\ ~returned[i].ok
          /\ returned[i].arg \in DOMAIN attempts
          /\ attempts[returned[i].arg].count = 2
    /\ frames = <<>>

\* C18: in the unconfirmed-email branch of logIn isLoading is true for as long
\* as the nested resendConfirmationEmail call has not settled: while logIn
\* awaits it, the flag logIn set at its start still stands.
C18_LoadingThroughResend ==
    \A f \in DOMAIN frames :
        (frames[f].kind = "logIn" /\ frames[f].phase = "nested") => isLoading

\* The confirmEmail of frame f returns res in this step, after its one request.
ConfirmEmailReturned(f, res) ==
    \E i \in DOMAIN returned' :
        /\ returned'[i].kind = "confirmEmail"
        /\ returned'[i].arg = frames[f].arg
        /\ returned'[i].res = res
        /\ returned'[i].nreq = 1

C20_ResendAttempts ==
    [][ /\ \A f \in {g \in DOMAIN frames : frames[g].kind = "resendConfirmationEmail"} :
           \A r \in Responses(frames[f], now, storage) :
             AnswerStep(f, r)
             => LET key == ResendKey(frames[f].arg)
                    res == IF r.ok /\ r.shape = "status_true" THEN "sent"
                           ELSE IF r.ok /\ r.shape = "in_progress" THEN "in_progress"
                           ELSE "error"
                IN  /\ \E i \in DOMAIN returned' :
                          /\ returned'[i].kind = "resendConfirmationEmail"
                          /\ returned'[i].arg = frames[f].arg
                          /\ returned'[i].res = res
                          /\ returned'[i].nreq = 1
                    /\ IF res = "in_progress" THEN attempts' = attempts
                       ELSE /\ key \in DOMAIN attempts'
                            /\ attempts'[key] =
                                 recordAttempt(authRateLimiterConfig, attempts, key, now)[key]
                            /\ \A id \in DOMAIN attempts \ {key} :
                                  id \in DOMAIN attempts' /\ attempts'[id] = attempts[id]
        /\ \A i \in DOMAIN returned' :
             (returned'[i].kind = "resendConfirmationEmail" /\ returned'[i].nreq = 0)
             => LET key == ResendKey(returned'[i].arg)
                    rateLimitCheck == checkLimit(authRateLimiterConfig, attempts, key, now)
                IN  /\ ~rateLimitCheck.isAllowed
                    /\ returned'[i].res = "error"
                    /\ key \in DOMAIN attempts'
                    /\ attempts'[key] = rateLimitCheck.attempts[key]
        /\ \A g \in NewFrames :
             frames'[g].kind = "resendConfirmationEmail"
             => /\ checkLimit(authRateLimiterConfig, attempts,
                              ResendKey(frames'[g].arg), now).isAllowed
                /\ frames'[g].nreq = 1 ]_vars

\* A resend called from the UI was denied by the limiter after five recorded
\* attempts: it returned 'error' and sent nothing.
C20_Witness ==
    /\ frames = <<>>
    /\ \E i \in DOMAIN returned :
          /\ returned[i].kind = "resendConfirmationEmail"
          /\ returned[i].via = "ui"
          /\ returned[i].res = "error"
          /\ returned[i].nreq = 0
          /\ ResendKey(returned[i].arg) \in DOMAIN attempts
          /\ attempts[ResendKey(returned[i].arg)].count = authRateLimiterConfig.maxAttempts

\* C21: isLogged is governed by the refresh token: when the store is created
\* isLogged equals isTokenValid(stored refresh token), and in every state
\* reached afterwards isLogged = true implies that the storage holds a refresh
\* token.
C21_RefreshGoverns ==
    /\ isLogged => storage.refresh # NoToken
    /\ (left = MaxCalls /\ now = 0) => isLogged = isTokenValid(storage.refresh, now)

\* A session opened by a login over an empty storage is on, its request
\* answered, with the refresh token of the login stored.
C21_Witness ==
    /\ isLogged
    /\ storage.refresh.kind = "refresh"
    /\ storage.refresh.n > 0
    /\ \E i \in DOMAIN returned : returned[i].kind = "logIn" /\ returned[i].res = "success"

\* The calls of onRequire2FA made in this step.
Require2FACalls == {i \in DOMAIN returned' : returned'[i].kind = "onRequire2FA"}

\* The limiter's records other than the one of id are as they were.
OtherRecordsKept(id) ==
    /\ DOMAIN attempts' \ {id} = DOMAIN attempts \ {id}
    /\ \A k \in DOMAIN attempts \ {id} : attempts'[k] = attempts[k]

\* C22: a logIn that returns 'go2fa' calls onRequire2FA exactly once and leaves
\* isLogged, confirmEmailToken and Token Storage as they were: neither the task
\* that starts a logIn nor the task in which it returns 'go2fa' writes them,
\* and of the limiter's records only the one of credentials.email changes;
\* onRequire2FA is called in no other case.
C22_Go2faFrame ==
    [][ /\ \A g \in NewFrames :
              frames'[g].kind = "logIn"
              => /\ isLogged' = isLogged
                 /\ confirmEmailToken' = confirmEmailToken
                 /\ storage' = storage
                 /\ OtherRecordsKept(frames'[g].arg)
        /\ \A i \in DOMAIN returned' :
              (returned'[i].kind = "logIn" /\ returned'[i].res = "go2fa")
              => /\ Cardinality(Require2FACalls) = 1
                 /\ isLogged' = isLogged
                 /\ confirmEmailToken' = confirmEmailToken
                 /\ storage' = storage
                 /\ OtherRecordsKept(returned'[i].arg)
                 /\ returned'[i].arg \in DOMAIN attempts'
                 /\ attempts'[returned'[i].arg] =
                        recordAttempt(authRateLimiterConfig, attempts, returned'[i].arg, now)
                            [returned'[i].arg]
                 /\ returned'[i].nreq = 1
        /\ Require2FACalls # {}
           => \E i \in DOMAIN returned' :
                 returned'[i].kind = "logIn" /\ returned'[i].res = "go2fa" ]_vars

\* A logIn has returned 'go2fa' while the confirmation token of an earlier
\* login is kept and nobody is logged in.
C22_Witness ==
    /\ \E i \in DOMAIN returned : returned[i].kind = "logIn" /\ returned[i].res = "go2fa"
    /\ \E i \in DOMAIN returned : returned[i].kind = "onRequire2FA"
    /\ confirmEmailToken # ""
    /\ ~isLogged

\* C23: the cached user record belongs to the account of the stored tokens: in
\* every reachable state a user record in storage is the one that came with
\* the stored tokens, never one left by an earlier authentication.
C23_UserOfTokens ==
    storage.user \in Accounts
    => /\ storage.access.kind = "access" => storage.access.acct = storage.user
       /\ storage.refresh.kind = "refresh" => storage.refresh.acct = storage.user

\* The logout request of the forced logOut in frame f passes the request
\* interceptor in this step: it was waiting for it, and is at the server after.
ForcedLogOutPasses(f) ==
    /\ frames[f].kind = "logOut" /\ frames[f].via = "forced"
    /\ frames[f].phase \in {"call", "token"}
    /\ f \in DOMAIN frames'
    /\ frames'[f].kind = "logOut" /\ frames'[f].via = "forced"
    /\ frames'[f].phase = "inflight"

\* C24: a forced logout started by getAccessToken stays one logOut and one
\* logout request: the pass of its logout request through the request
\* interceptor, which calls getAccessToken over the tokens still stored,
\* starts no further forced logOut.
C24_OneForcedLogOut ==
    [][ \A f \in DOMAIN frames : ForcedLogOutPasses(f) => ForcedLogOutsStarted = {} ]_vars

\* Token Storage holds neither token.
NoTokensStored == storage.access = NoToken /\ storage.refresh = NoToken

\* C25: once a logOut has returned, Token Storage stays empty until a logIn or
\* a confirmEmail succeeds: an empty storage (which, after the start, only
\* logOut's clear leaves) gets tokens only in the task in which logIn returns
\* 'success' or confirmEmail returns true, never from the continuation of a
\* call that was in flight when logOut ran.
C25_EmptyAfterLogOut ==
    [][ (NoTokensStored /\ ~NoTokensStored')
        => \E i \in DOMAIN returned' :
              \/ returned'[i].kind = "logIn" /\ returned'[i].res = "success"
              \/ returned'[i].kind = "confirmEmail" /\ returned'[i].res = "true" ]_vars

\* The refresh requests at the server.
RefreshPending ==
    {i \in DOMAIN frames : frames[i].kind = "getAccessToken" /\ frames[i].phase = "inflight"}

\* C26 as stated: no two refresh requests carrying the same refresh token are
\* pending at once.
C26_SingleFlight ==
    \A i, j \in RefreshPending : frames[i].body = frames[j].body => i = j

\* One request is being processed and no forced logOut is under way.
OneRequestAlone ==
    /\ Cardinality({i \in DOMAIN frames : frames[i].via = "ui"}) <= 1
    /\ \A i \in DOMAIN frames : frames[i].via # "forced"

\* C26 amended: while a single request is being processed and no forced logOut
\* is under way, at most one refresh request is in flight: the request and the
\* response interceptor of one request await getAccessToken one after the other.
C26_OneRefreshPerRequest == OneRequestAlone => Cardinality(RefreshPending) <= 1

\* The response interceptor of the only request awaits a refresh, after the
\* request interceptor's getAccessToken of the same request has returned.
C26_Witness ==
    /\ OneRequestAlone
    /\ \E i \in RefreshPending :
          /\ frames[i].via = "response"
          /\ frames[frames[i].parent].phase = "retoken"

\* The login requests for email at the server.
LoginsPending(email) ==
    {i \in DOMAIN frames : /\ frames[i].kind = "logIn"
                           /\ frames[i].arg = email
                           /\ frames[i].phase = "inflight"}

\* C27: the login requests sent for one email within one rate-limit window are
\* at most maxAttempts, also when logIn calls overlap: the failed requests the
\* limiter has counted in the current window and the requests still at the
\* server (sent at the same clock reading) are together at most maxAttempts.
C27_LoginRequestsBounded ==
    \A email \in Emails :
        (email \in DOMAIN attempts
            /\ now - attempts[email].firstAttemptTime <= authRateLimiterConfig.windowMs)
        => attempts[email].count + Cardinality(LoginsPending(email))
              <= authRateLimiterConfig.maxAttempts

\* id is locked out, blockDurationMs has elapsed since the check that set
\* blockedUntil, and no attempt has been recorded since: the count is still the
\* one that triggered the block.
LockoutElapsed(id) ==
    /\ id \in DOMAIN attempts
    /\ attempts[id].blockedUntil # 0
    /\ attempts[id].count = authRateLimiterConfig.maxAttempts
    /\ now >= attempts[id].blockedUntil

\* C28: a lockout ends: once blockDurationMs has elapsed since the check that
\* set blockedUntil, with no attempt recorded since, the next checkLimit allows
\* the identifier, whenever the earlier attempts were made.
C28_LockoutEnds ==
    [][ \A id \in Emails :
          (LockoutElapsed(id) /\ returned' # <<>> /\ returned'[1].kind = "checkLimit"
                              /\ returned'[1].arg = id)
          => returned'[1].res = "allowed" ]_vars

\* C29: whenever no operation of the auth store is in flight (every call has
\* returned, every request has settled), isLoading is false.
C29_IdleNotLoading == frames = <<>> => ~isLoading

\* Nothing is in flight any more after a task in which a forced logOut returned.
C29_Witness ==
    /\ frames = <<>>
    /\ ~isLoading
    /\ \E i \in DOMAIN returned : returned[i].kind = "logOut" /\ returned[i].via = "forced"

\* C30: a modal opened with openModal stays open with its content until
\* closeModal or _resetModal is called after that openModal: a step that is no
\* call of the store (a timeout of an earlier closeModal, the clock) leaves a
\* modal that is open and not closing as it is.
C30_OpenedStaysOpen ==
    [][ (modal.isOpen /\ ~modal.isClosing /\ left' = left)
        => (modal'.isOpen /\ modal'.content = modal.content) ]_vars

====
